---- MODULE Spec2Model ----
(***************************************************************************)
(* A model of src/index.ts: the self-extending agent (class AIAgent) and   *)
(* the start-up block that drives it.                                      *)
(*                                                                         *)
(* One process instance runs on a single event loop.  An action of this    *)
(* model is one event the loop dispatches (process start, a line on stdin, *)
(* a completion-provider reply, the completion of a tool) together with    *)
(* everything the code runs before it next suspends on such an event.      *)
(*                                                                         *)
(* Text is a sequence of tokens.  The tokens "$", "&", "]" and ";" are     *)
(* those single characters, "SQ" is a single quote and "BT" a backtick;    *)
(* every other token of a Tool's text is a run of ordinary characters.     *)
(* The tokens "PRE", "HEAD", "{", ",", "}", "Q" and "POST" are the fixed   *)
(* pieces of index.ts around the seed block ("Q" is a double quote).       *)
(***************************************************************************)
EXTENDS Integers, Sequences, FiniteSets, TLC

\* lines of input typed on stdin over the whole run
MaxLines == 2
\* process instances the supervisor launches over the whole run
MaxInstances == 2

VARIABLES
    alive,        \* a process instance is running
    crashed,      \* the last launch failed: index.ts no longer parses
    instance,     \* number of process instances launched so far
    linesRead,    \* number of stdin lines handed to the line handler so far
    history,      \* AIAgent.history of the current (or last) instance
    tools,        \* AIAgent.tools of the current (or last) instance
    historyFile,  \* content of history.json
    mainFile,     \* content of index.ts
    calls,        \* the processUserInput invocations of this instance
    output,       \* the 'AI:' lines printed by this instance
    committed     \* AIAgent.tools as it was when updateTools last ran

vars == <<alive, crashed, instance, linesRead, history, tools, historyFile,
          mainFile, calls, output, committed>>

------------------------------------------------------------------------------
\* JavaScript values

Undefined == [type |-> "undefined"]
Str(s) == [type |-> "string", value |-> s]
Arr(items) == [type |-> "array", items |-> items]
ErrorObj(message) == [type |-> "Error", message |-> message]
Null == [type |-> "null"]

\* the number JSON.parse gives for a literal beyond the double range, as 1e999
Infinity == [type |-> "number", value |-> "Infinity"]

\* ToBoolean of the values a Decision's fields can hold (an array is truthy)
Truthy(v) ==
    CASE v.type = "undefined" -> FALSE
      [] v.type = "string" -> v.value # ""
      [] OTHER -> TRUE

\* v.length of an array
Length(v) == IF v.type = "array" THEN Len(v.items) ELSE 0

\* x && x.length > 0
NonEmpty(v) == Truthy(v) /\ Length(v) > 0

------------------------------------------------------------------------------
\* interface Message, interface Tool

Message(role, content) == [role |-> role, content |-> content]

Tool(name, description, implementation) ==
    [name |-> name, description |-> description, implementation |-> implementation]

\* the lines the user types, in the order typed
Lines == <<"hello", "list files", "thanks", "bye">>

\* the three Tools of the seed block as shipped
BasicTools ==
    << Tool(<<"readMainFile">>, <<"Reads the main file">>, <<"readFileSync">>),
       Tool(<<"writeMainFile">>, <<"Writes the main file">>, <<"writeFileSync">>),
       Tool(<<"listFiles">>, <<"Lists all files">>, <<"readdirSync">>) >>

------------------------------------------------------------------------------
\* history.json

\* JSON.stringify of one Message: a key whose value is undefined is omitted,
\* and a number that is not finite is written as null
StringifyMessage(m) ==
    CASE m.content.type = "undefined" -> [role |-> m.role]
      [] m.content = Infinity -> Message(m.role, Null)
      [] OTHER -> m

\* JSON.parse of one stored Message: reading a key that is not there gives undefined
ParseMessage(j) ==
    IF "content" \in DOMAIN j THEN j ELSE Message(j.role, Undefined)

\* history.json when it is absent (the empty sequence), and when its text is not
\* JSON: neither holds a Turn
NoFile == <<>>
Garbage == <<[garbage |-> TRUE]>>

\* readFileSync and JSON.parse of loadHistory do not throw
Readable(file) == file # NoFile /\ file # Garbage

\* a saveHistory that writes the newest Turn only
SaveNewestOnly(h) ==
    IF h = <<>> THEN <<>> ELSE <<StringifyMessage(h[Len(h)])>>

\* saveHistory: history.json is overwritten with the whole history
SaveHistory(h) == [i \in 1..Len(h) |-> StringifyMessage(h[i])]

\* loadHistory: the whole file is read back; the catch block starts fresh
LoadHistory(file) ==
    IF Readable(file) THEN [i \in 1..Len(file) |-> ParseMessage(file[i])] ELSE <<>>

\* a restart that exits without writing history.json
RestartWithoutFlush(file, h) == file

\* restart: saveHistory, then process.exit(0); history.json as the exit leaves it
Restart(file, h) == SaveHistory(h)

------------------------------------------------------------------------------
\* index.ts and its seed block

\* pieces of index.ts that hold a line break: no string literal may contain one
LineBreakTokens == {"PRE", "HEAD", "{", ",", "}", "POST"}

\* JSON.stringify(tool, null, 2)
StringifyTool(t) ==
    <<"{", "Q">> \o t.name \o <<"Q", ",", "Q">> \o t.description
        \o <<"Q", ",", "Q">> \o t.implementation \o <<"Q", "}">>

\* the pieces lo..hi of a sequence of texts, one after the other
RECURSIVE Concat(_, _, _)
Concat(pieces, lo, hi) ==
    IF lo > hi THEN <<>>
    ELSE IF lo = hi THEN pieces[lo]
    ELSE LET mid == (lo + hi) \div 2
         IN  Concat(pieces, lo, mid) \o Concat(pieces, mid + 1, hi)

\* this.tools.map(tool => JSON.stringify(tool, null, 2)).join(',\n')
ToolsSection(ts) ==
    Concat([i \in 1..Len(ts) |->
                IF i = 1 THEN StringifyTool(ts[i])
                ELSE <<",">> \o StringifyTool(ts[i])], 1, Len(ts))

\* the template literal of the replacement: the header, toolsSection, "];"
Replacement(ts) == <<"HEAD">> \o ToolsSection(ts) \o <<"]", ";">>

\* index.ts as shipped
InitialMainFile == <<"PRE">> \o Replacement(BasicTools) \o <<"POST">>

\* where the pattern of updateTools matches: from the first "this.tools = [" to
\* the first "];" after it (the group is lazy); <<0, 0>> when there is no match
MatchSeed(file) ==
    LET heads == {h \in 1..Len(file) : file[h] = "HEAD"}
        ends(h) == {q \in (h + 1)..(Len(file) - 1) :
                        file[q] = "]" /\ file[q + 1] = ";"}
        ok == {h \in heads : ends(h) # {}}
    IN  IF ok = {} THEN <<0, 0>>
        ELSE LET h == CHOOSE x \in ok : \A y \in ok : x <= y
                 q == CHOOSE x \in ends(h) : \A y \in ends(h) : x <= y
             IN  <<h, q + 1>>

\* String.prototype.replace expands the patterns "$$" (a dollar), "$&" (the match),
\* "$" backtick (the text before the match) and "$" quote (the text after it)
\* The replacement is scanned left to right, so in a run of dollars the pattern
\* starts are the 1st, 3rd, ... dollar that a pattern character follows.
GetSubstitution(r, matched, before, after) ==
    LET dollars == {p \in 1..Len(r) : r[p] = "$"}
        runStart(p) ==
            CHOOSE a \in 1..p :
                /\ \A j \in a..p : r[j] = "$"
                /\ (a = 1 \/ r[a - 1] # "$")
        starts(p) ==
            /\ p < Len(r)
            /\ r[p + 1] \in {"$", "&", "BT", "SQ"}
            /\ (p - runStart(p)) % 2 = 0
        patterns == {p \in dollars : starts(p)}
        expansion(p) ==
            CASE r[p + 1] = "$" -> <<"$">>
              [] r[p + 1] = "&" -> matched
              [] r[p + 1] = "BT" -> before
              [] OTHER -> after
        from[i \in 1..(Len(r) + 1)] ==
            LET rest == {p \in patterns : p >= i}
                p == CHOOSE x \in rest : \A y \in rest : x <= y
            IN  IF rest = {} THEN SubSeq(r, i, Len(r))
                ELSE SubSeq(r, i, p - 1) \o expansion(p) \o from[p + 2]
    IN  IF patterns = {} THEN r ELSE from[1]

\* currentFile.replace(pattern, replacement)
ReplaceSeed(file, r) ==
    LET m == MatchSeed(file)
        before == SubSeq(file, 1, m[1] - 1)
        matched == SubSeq(file, m[1], m[2])
        after == SubSeq(file, m[2] + 1, Len(file))
    IN  IF m = <<0, 0>> THEN file
        ELSE before \o GetSubstitution(r, matched, before, after) \o after

\* the index of the first double quote at or after position i, 0 when there is none
NextQuote(s, i) ==
    LET qs == {j \in i..Len(s) : s[j] = "Q"}
    IN  IF qs = {} THEN 0 ELSE CHOOSE j \in qs : \A k \in qs : j <= k

\* a string literal of the source: it may not run over a line break
IsLiteral(s, from, to) == \A j \in from..to : s[j] \notin LineBreakTokens

SyntaxError == [ok |-> FALSE, tools |-> <<>>]

\* one object literal of the seed block, as the runtime reads it at position i
ParseTool(s, i) ==
    LET bad == [ok |-> FALSE, tool |-> Tool(<<>>, <<>>, <<>>), next |-> 0]
        j == NextQuote(s, i + 2)
        k == NextQuote(s, j + 3)
        m == NextQuote(s, k + 3)
    IN  IF ~(i + 1 <= Len(s) /\ s[i] = "{" /\ s[i + 1] = "Q") THEN bad
        ELSE IF ~(j > 0 /\ j + 2 <= Len(s) /\ s[j + 1] = "," /\ s[j + 2] = "Q"
                  /\ IsLiteral(s, i + 2, j - 1)) THEN bad
        ELSE IF ~(k > 0 /\ k + 2 <= Len(s) /\ s[k + 1] = "," /\ s[k + 2] = "Q"
                  /\ IsLiteral(s, j + 3, k - 1)) THEN bad
        ELSE IF ~(m > 0 /\ m + 1 <= Len(s) /\ s[m + 1] = "}"
                  /\ IsLiteral(s, k + 3, m - 1)) THEN bad
        ELSE [ok |-> TRUE,
              tool |-> Tool(SubSeq(s, i + 2, j - 1), SubSeq(s, j + 3, k - 1),
                            SubSeq(s, k + 3, m - 1)),
              next |-> m + 2]

\* the array literal of the seed block from position i on, up to the end of the file
RECURSIVE ParseSeedFrom(_, _, _)
ParseSeedFrom(s, i, acc) ==
    IF i > Len(s) THEN SyntaxError
    ELSE IF s[i] = "]"
    THEN IF i + 2 = Len(s) /\ s[i + 1] = ";" /\ s[i + 2] = "POST"
         THEN [ok |-> TRUE, tools |-> acc]
         ELSE SyntaxError
    ELSE IF s[i] = "{"
    THEN LET t == ParseTool(s, i)
         IN  IF ~t.ok \/ t.next > Len(s) THEN SyntaxError
             ELSE IF s[t.next] = ","
             THEN ParseSeedFrom(s, t.next + 1, Append(acc, t.tool))
             ELSE IF s[t.next] = "]"
             THEN ParseSeedFrom(s, t.next, Append(acc, t.tool))
             ELSE SyntaxError
    ELSE SyntaxError

\* initializeBasicTools of the index.ts on disk: the registry a new process
\* instance is seeded with, or a syntax error that keeps the process from starting
InitializeBasicTools(file) ==
    IF Len(file) >= 2 /\ file[1] = "PRE" /\ file[2] = "HEAD"
    THEN ParseSeedFrom(file, 3, <<>>)
    ELSE SyntaxError

\* a registry that keeps one Tool per name: a proposed Tool replaces the Tool of
\* the same name in place, and only Tools with new names are appended
RECURSIVE PushToolsByName(_, _)
PushToolsByName(registry, newTools) ==
    IF newTools = <<>> THEN registry
    ELSE LET t == newTools[1]
             hits == {i \in 1..Len(registry) : registry[i].name = t.name}
         IN  PushToolsByName(
                 IF hits = {} THEN Append(registry, t)
                 ELSE [i \in 1..Len(registry) |->
                          IF i \in hits THEN t ELSE registry[i]],
                 Tail(newTools))

\* updateTools, first statement: this.tools.push(...newTools)
PushTools(registry, newTools) == registry \o newTools

\* updateTools, the rest: index.ts rewritten from the registry after the push
RewriteMainFile(file, registry) == ReplaceSeed(file, Replacement(registry))

------------------------------------------------------------------------------
\* executeTool

\* the ways running an implementation text can end.  "return": the compiled
\* function returns a value or a promise that resolves; "syntax": new Function
\* rejects the text; "throw": the body throws; "reject": the body returns a
\* promise that rejects.
Returns == [kind |-> "return"]
Syntax == [kind |-> "syntax"]
Throws(e) == [kind |-> "throw", error |-> e]
Rejects(e) == [kind |-> "reject", error |-> e]

\* what the text of each Tool of this model does when run.  new Function
\* compiles the text in the global scope, where the names the module imports
\* from node:fs are not bound, so the body of a built-in Tool throws a
\* ReferenceError at its first statement.
Run(implementation) ==
    CASE implementation = <<"readdirSync">> ->
            {Throws(ErrorObj("Can't find variable: readdirSync"))}
      [] implementation = <<"fetch">> -> {Returns, Rejects(ErrorObj(""))}
      [] implementation = <<"return [arg0", "]", ";", " return (">> -> {Syntax}
      [] OTHER -> {Returns}

\* error.message as it is spliced into a template literal
MessageOf(e) == IF e.type = "Error" THEN e.message ELSE "undefined"

\* error instanceof Error ? error.message : String(error)
ErrorText(e) == IF e.type = "Error" THEN e.message ELSE e.value

Success(value) == [success |-> TRUE, result |-> value]
Failure(text) == [success |-> FALSE, result |-> "null", error |-> text]

\* this.tools.find(t => t.name === name): the index of the first match, 0 if none
Find(registry, name) ==
    LET hits == {i \in 1..Len(registry) : registry[i].name = name}
    IN  IF hits = {} THEN 0 ELSE CHOOSE i \in hits : \A j \in hits : i <= j

\* the ways the executeTool call for `name` can go in this registry
Ways(registry, name) ==
    IF Find(registry, name) = 0 THEN {Returns}
    ELSE Run(registry[Find(registry, name)].implementation)

\* an executeTool without the lookup check: a missing Tool counts as run
ExecuteToolMissingSucceeds(registry, name, how) ==
    IF Find(registry, name) = 0 THEN Success("undefined")
    ELSE CASE how.kind = "return" -> Success("value")
           [] OTHER -> Failure("failed")

\* executeTool(name, args) when the implementation behaves as how
ExecuteTool(registry, name, how) ==
    IF Find(registry, name) = 0 THEN Failure("Tool not found")
    ELSE CASE how.kind = "return" -> Success("value")
           [] how.kind = "syntax" -> Failure("SyntaxError: Unexpected token")
           [] how.kind = "throw" ->
                Failure(ErrorText(ErrorObj("Tool execution failed: " \o MessageOf(how.error))))
           [] OTHER -> Failure(ErrorText(how.error))

------------------------------------------------------------------------------
\* generateResponse

\* a parsed Decision: reading a key the object lacks gives undefined
Decision(reasoning, actions, newTools, response) ==
    [reasoning |-> reasoning, actions |-> actions, newTools |-> newTools,
     response |-> response]

Action(tool) == [tool |-> tool, args |-> Arr(<<>>)]

\* the object the text '{}' parses to
EmptyObject == Decision(Undefined, Undefined, Undefined, Undefined)

\* the object the catch block returns
Fallback ==
    Decision(Str("Failed to generate proper response"), Arr(<<>>), Arr(<<>>),
             Str("Error: Failed to process the request. Please try again."))

\* message.content as text: `fence` says it is wrapped in code-fence markers,
\* `valid` whether what the markers enclose is JSON, `object` what it parses to.
\* The request asks for response_format json_object, so valid JSON is an object.
Text(fence, valid, object) ==
    [type |-> "string", fence |-> fence, valid |-> valid, object |-> object]

\* content || '{}'
OrEmptyObject(content) ==
    IF content.type = "null" THEN Text(FALSE, TRUE, EmptyObject) ELSE content

\* content.replace(fence markers, '').trim()
StripFences(text) == [text EXCEPT !.fence = FALSE]

\* JSON.parse(jsonStr): the value, or a thrown SyntaxError
JSONParse(text) ==
    IF text.fence \/ ~text.valid THEN [threw |-> TRUE, value |-> Undefined]
    ELSE [threw |-> FALSE, value |-> text.object]

\* getSystemPrompt: the fixed instructions around one line per registered Tool
SystemPrompt(registry) ==
    [type |-> "prompt",
     catalog |-> [i \in 1..Len(registry) |->
                      [name |-> registry[i].name,
                       description |-> registry[i].description]]]

\* the toolResults argument of generateResponse when it is given
Object(toolResults) == [type |-> "object", value |-> toolResults]

\* the text of the system message that carries the tool results
ResultsText(toolResults) == [type |-> "results", results |-> toolResults.value]

\* the messages array generateResponse sends: the system prompt, this.history
\* as it stands at the call, the input, and the tool results if they are given
Messages(registry, h, input, toolResults) ==
    <<Message("system", SystemPrompt(registry))>>
        \o [i \in 1..Len(h) |-> Message(h[i].role, h[i].content)]
        \o <<Message("user", input)>>
        \o (IF toolResults.type = "undefined" THEN <<>>
            ELSE <<Message("system", ResultsText(toolResults))>>)

\* what the provider call of generateResponse can do
RejectsCall == [kind |-> "rejects"]
Resolves(content) == [kind |-> "resolves", content |-> content]

\* a generateResponse whose catch block answers with the empty object
GenerateResponseEmptyOnError(completion) ==
    IF completion.kind = "rejects" THEN EmptyObject
    ELSE LET parsed == JSONParse(StripFences(OrEmptyObject(completion.content)))
         IN  IF parsed.threw THEN EmptyObject ELSE parsed.value

\* generateResponse from the provider call on: the value it returns
GenerateResponse(completion) ==
    IF completion.kind = "rejects" THEN Fallback
    ELSE LET parsed == JSONParse(StripFences(OrEmptyObject(completion.content)))
         IN  IF parsed.threw THEN Fallback ELSE parsed.value

\* Tools the provider proposes in this model
FetchTool == Tool(<<"fetchPage">>, <<"Fetches a page">>, <<"fetch">>)
WrapTool == Tool(<<"wrap">>, <<"Wraps a value">>, <<"return [arg0", "]", ";", " return (">>)
ListTool == Tool(<<"listFiles">>, <<"Lists files by price">>, <<"return ", "$", "$">>)
Proposals == {FetchTool, WrapTool, ListTool}

\* objects the provider answers with in this model
Objects ==
    {Decision(Str("r"), Arr(<<>>), Arr(<<>>), Str("hi there")),
     Decision(Str("r"), Arr(<<Action(<<"fetchPage">>), Action(<<"listFiles">>),
                             Action(<<"fetchPage">>)>>),
              Arr(<<>>), Str("hi there")),
     Decision(Str("r"), Undefined, Undefined, Undefined),
     Decision(Str("r"), Arr(<<>>), Arr(<<>>), Infinity)}
    \cup {Decision(Str("r"), Arr(<<>>), Arr(<<t>>), Str("added")) : t \in Proposals}

\* what the provider can do with one request
Completions ==
    {RejectsCall, Resolves(Null), Resolves(Text(FALSE, FALSE, EmptyObject))}
    \cup {Resolves(Text(FALSE, TRUE, o)) : o \in Objects}
    \cup {Resolves(Text(TRUE, TRUE, Decision(Str("r"), Arr(<<>>), Arr(<<>>), Str("hi there"))))}

------------------------------------------------------------------------------
\* processUserInput, restart and the start-up block

\* processUserInput up to its first provider request
NewCall(input, replay) ==
    [input |-> input, replay |-> replay, pc |-> "gen1", aiResponse |-> Undefined,
     k |-> 0, toolResults |-> <<>>, ran |-> <<>>, requests |-> 1]

\* a call that has returned, or whose process has exited: its locals are gone
Ended(c, pc) ==
    [c EXCEPT !.pc = pc, !.aiResponse = Undefined, !.k = 0, !.toolResults = <<>>,
              !.ran = <<>>]

\* aiResponse.actions && aiResponse.actions.length > 0
WantsActions(d) == NonEmpty(d.actions)

\* a test for new tools that leaves out the length: an empty array is truthy
WantsNewToolsTruthy(d) == Truthy(d.newTools)

\* aiResponse.newTools && aiResponse.newTools.length > 0
WantsNewTools(d) == NonEmpty(d.newTools)

Init ==
    /\ alive = TRUE
    /\ crashed = FALSE
    /\ instance = 1
    /\ linesRead = 0
    /\ historyFile \in {NoFile, Garbage}
    /\ history = LoadHistory(historyFile)
    /\ tools = BasicTools
    /\ mainFile = InitialMainFile
    /\ calls = <<>>
    /\ output = <<>>
    /\ committed = <<>>

\* the supervisor launches the process: the constructor, then the start-up block
Launch ==
    /\ ~alive /\ ~crashed /\ instance < MaxInstances
    /\ instance' = instance + 1
    /\ LET seed == InitializeBasicTools(mainFile)
           loaded == LoadHistory(historyFile)
           replay == loaded # <<>> /\ loaded[Len(loaded)].role = "user"
           last == loaded[Len(loaded)]
       IN  IF ~seed.ok
           THEN /\ crashed' = TRUE
                /\ UNCHANGED <<alive, history, tools, calls, output>>
           ELSE /\ alive' = TRUE
                /\ tools' = seed.tools
                /\ output' = <<>>
                /\ history' = IF replay THEN Append(loaded, Message("user", last.content))
                              ELSE loaded
                /\ calls' = IF replay THEN <<NewCall(last.content, TRUE)>> ELSE <<>>
                /\ UNCHANGED crashed
    /\ UNCHANGED <<linesRead, historyFile, mainFile, committed>>

\* rl.on('line'): the handler calls processUserInput, which runs up to its
\* first provider request
Line ==
    /\ alive /\ linesRead < MaxLines
    /\ linesRead' = linesRead + 1
    /\ history' = Append(history, Message("user", Str(Lines[linesRead + 1])))
    /\ calls' = Append(calls, NewCall(Str(Lines[linesRead + 1]), FALSE))
    /\ UNCHANGED <<alive, crashed, instance, tools, historyFile, mainFile, output,
                   committed>>

\* the provider request of call i settles; processUserInput runs on to its next
\* suspension: the first tool, the process exit, or its return to the handler.
\* The handler's console.log follows the return in the same turn of the event
\* loop, before any other event is dispatched, so it belongs to this step.
ProviderReplies(i, completion) ==
    /\ alive /\ calls[i].pc \in {"gen1", "gen2"}
    /\ LET d == GenerateResponse(completion)
           c == [calls[i] EXCEPT !.aiResponse = d]
       IN  IF calls[i].pc = "gen1" /\ WantsActions(d)
           THEN /\ calls' = [calls EXCEPT ![i] = [c EXCEPT !.pc = "tools", !.k = 1]]
                /\ UNCHANGED <<alive, history, tools, historyFile, mainFile, output,
                               committed>>
           ELSE IF WantsNewTools(d)
           THEN /\ tools' = PushTools(tools, d.newTools.items)
                /\ mainFile' = RewriteMainFile(mainFile, tools')
                /\ committed' = tools'
                /\ historyFile' = Restart(historyFile, history)
                /\ alive' = FALSE
                /\ calls' = [calls EXCEPT ![i] = Ended(c, "exit")]
                /\ UNCHANGED <<history, output>>
           ELSE /\ history' = Append(history, Message("assistant", d.response))
                /\ historyFile' = SaveHistory(history')
                /\ output' = Append(output, d.response)
                /\ calls' = [calls EXCEPT ![i] = Ended(c, "done")]
                /\ UNCHANGED <<alive, tools, mainFile, committed>>
    /\ UNCHANGED <<crashed, instance, linesRead>>

\* a loop that is left after its first action
LastActionAlways(c) == TRUE

\* the for..of loop over aiResponse.actions has reached the last action
LastAction(c) == c.k = Len(c.aiResponse.actions.items)

\* a mapping that keeps the result it already has for a name
KeepFirstResult(toolResults, name, result) == toolResults @@ (name :> result)

\* toolResults[action.tool] = result: a later result for a name replaces the earlier
SetResult(toolResults, name, result) == (name :> result) @@ toolResults

\* the executeTool call of action k of call i settles; the loop goes on to the
\* next action or, after the last, to the second provider request
ToolSettles(i, how) ==
    /\ alive /\ calls[i].pc = "tools"
    /\ LET c == calls[i]
           action == c.aiResponse.actions.items[c.k]
           result == ExecuteTool(tools, action.tool, how)
           last == LastAction(c)
       IN  /\ how \in Ways(tools, action.tool)
           /\ calls' = [calls EXCEPT ![i] =
                  [c EXCEPT !.toolResults = SetResult(@, action.tool, result),
                            !.ran = Append(@, [tool |-> action.tool,
                                               index |-> Find(tools, action.tool),
                                               result |-> result]),
                            !.k = IF last THEN @ ELSE @ + 1,
                            !.pc = IF last THEN "gen2" ELSE "tools",
                            !.requests = IF last THEN @ + 1 ELSE @]]
    /\ UNCHANGED <<alive, crashed, instance, linesRead, history, tools, historyFile,
                   mainFile, output, committed>>

Hows == UNION {Run(t.implementation) : t \in Proposals \cup {BasicTools[3]}}

Next ==
    \/ Launch
    \/ Line
    \/ \E i \in 1..Len(calls) : \E completion \in Completions :
            ProviderReplies(i, completion)
    \/ \E i \in 1..Len(calls) : \E how \in Hows : ToolSettles(i, how)

Spec == Init /\ [][Next]_vars

------------------------------------------------------------------------------
\* Properties

InProgress(c) == c.pc \in {"gen1", "tools", "gen2"}
AwaitsProvider(c) == c.pc \in {"gen1", "gen2"}
Apology == Str("Error: Failed to process the request. Please try again.")

\* a provider result that yields no structured object: the call failed, or the
\* text is not JSON even with its code-fence markers taken off
Unparseable(completion) ==
    \/ completion.kind = "rejects"
    \/ completion.content.type = "string" /\ ~completion.content.valid

\* call i takes its final Decision from `completion` in this step
Concludes(i, completion) ==
    /\ i <= Len(calls') /\ calls'[i].pc \in {"done", "exit"}
    /\ ProviderReplies(i, completion)

\* C1: after N lines handed to processUserInput from an empty history with no
\* newTools proposed, the history holds exactly 2N Turns, alternating user,
\* assistant, with the user Turns in the order the lines were submitted.
C1_HistoryAlternates ==
    (alive /\ instance = 1 /\ \A i \in 1..Len(calls) : calls[i].pc = "done") =>
        /\ Len(history) = 2 * Len(calls)
        /\ \A i \in 1..Len(calls) :
              /\ history[2 * i - 1] = Message("user", Str(Lines[i]))
              /\ history[2 * i].role = "assistant"

\* C2: while the replay of the last persisted user Turn is in progress, no
\* processUserInput call for a fresh line of input has begun.
C2_ReplayBeforeInput ==
    alive => \A i \in 1..Len(calls) :
        (calls[i].replay /\ InProgress(calls[i])) => Len(calls) = 1

\* C3: at most one provider request is in flight at any instant.
C3_OneRequestInFlight ==
    alive => Cardinality({i \in 1..Len(calls) : AwaitsProvider(calls[i])}) <= 1

\* C4: whenever a process instance exits through commit and restart, the last
\* Turn persisted at exit is a user Turn, so that the next instance replays it.
C4_ExitOnUserTurn ==
    (\E i \in 1..Len(calls) : calls[i].pc = "exit") =>
        /\ historyFile # <<>>
        /\ historyFile[Len(historyFile)].role = "user"

\* C5: for the final Decision of a processed input, exactly one of two outcomes
\* follows.  If its newTools is non-empty: the registry is committed, the history
\* flushed and the process exits, with no assistant Turn appended, persisted or
\* delivered by that instance.  Otherwise: no rewrite and no exit; the response is
\* appended as an assistant Turn, the history persisted and the response delivered.
C5_OneOfTwoOutcomes ==
    [][/\ \A i \in 1..Len(calls) : \A completion \in Completions :
              Concludes(i, completion) =>
                  LET d == GenerateResponse(completion)
                  IN  IF d.newTools.type = "array" /\ d.newTools.items # <<>>
                      THEN /\ calls'[i].pc = "exit" /\ ~alive'
                           /\ tools' = tools \o d.newTools.items
                           /\ mainFile' = RewriteMainFile(mainFile, tools')
                           /\ history' = history
                           /\ historyFile' = SaveHistory(history)
                           /\ output' = output
                      ELSE /\ calls'[i].pc = "done" /\ alive'
                           /\ tools' = tools /\ mainFile' = mainFile
                           /\ history' = Append(history, Message("assistant", d.response))
                           /\ historyFile' = SaveHistory(history')
                           /\ output' = Append(output, d.response)
       /\ (~alive /\ instance' = instance) =>
              (history' = history /\ historyFile' = historyFile /\ output' = output)
      ]_vars

\* C5 witness: one instance has replied to one input and exited on another
C5_Witness ==
    /\ \E i \in 1..Len(calls) : calls[i].pc = "exit"
    /\ \E j \in 1..Len(calls) : calls[j].pc = "done"
    /\ ~alive /\ Len(output) = 1

\* C6: every executeTool call that fails resolves to a ToolResult with
\* success = false and a non-empty error text.
C6_FailureHasErrorText ==
    \A i \in 1..Len(calls) : \A k \in 1..Len(calls[i].ran) :
        LET r == calls[i].ran[k].result
        IN  ~r.success => r.error # ""

\* C7: when the provider call fails or its text is not JSON, generateResponse
\* returns the fixed fallback Decision without a second provider request, and the
\* turn ends with the apology appended as the assistant Turn, persisted and
\* delivered, with no tool execution, rewrite or restart.
C7_FallbackEndsTurn ==
    [][\A i \in 1..Len(calls) : \A completion \in Completions :
          (Unparseable(completion) /\ ProviderReplies(i, completion)) =>
              /\ GenerateResponse(completion).actions = Arr(<<>>)
              /\ GenerateResponse(completion).newTools = Arr(<<>>)
              /\ GenerateResponse(completion).response = Apology
              /\ calls'[i].pc = "done" /\ alive'
              /\ calls'[i].requests = calls[i].requests
              /\ history' = Append(history, Message("assistant", Apology))
              /\ historyFile' = SaveHistory(history')
              /\ output' = Append(output, Apology)
              /\ tools' = tools /\ mainFile' = mainFile
      ]_vars

\* C7 witness: a turn has ended with the apology, after its tools had run
C7_Witness ==
    /\ alive /\ history # <<>>
    /\ history[Len(history)] = Message("assistant", Apology)
    /\ \E i \in 1..Len(calls) : calls[i].pc = "done" /\ calls[i].requests = 2

\* C8: every value generateResponse returns is a well-formed Decision (response
\* present, actions and newTools present as sequences), so every assistant Turn
\* in the history has a defined text content.
C8_WellFormedDecision ==
    /\ \A i \in 1..Len(calls) :
          calls[i].aiResponse # Undefined =>
              /\ calls[i].aiResponse.response.type = "string"
              /\ calls[i].aiResponse.actions.type = "array"
              /\ calls[i].aiResponse.newTools.type = "array"
    /\ \A n \in 1..Len(history) :
          history[n].role = "assistant" => history[n].content.type = "string"

\* C9: after a commit followed by a restart, the registry the next process
\* instance is seeded with equals the in-memory registry at commit time, Tool by
\* Tool and in the same order.
C9_SeedEqualsCommitted ==
    /\ ~crashed
    /\ (alive /\ instance > 1) => tools = committed

\* C10: the Tool set exported after commit(T) is the Tool set exported before
\* the commit with T appended at the end, in order.
C10_CommitAppends ==
    [][\A i \in 1..Len(calls) : \A completion \in Completions :
          (Concludes(i, completion) /\ calls'[i].pc = "exit") =>
              LET T == GenerateResponse(completion).newTools.items
              IN  /\ Len(tools') = Len(tools) + Len(T)
                  /\ \A n \in 1..Len(tools) : tools'[n] = tools[n]
                  /\ \A n \in 1..Len(T) : tools'[Len(tools) + n] = T[n]
                  /\ ToolsSection(tools') =
                        ToolsSection(tools) \o <<",">> \o ToolsSection(T)
      ]_vars

\* C10 witness: a Tool was committed whose name an earlier Tool already has
C10_Witness ==
    /\ ~alive /\ \E i \in 1..Len(calls) : calls[i].pc = "exit"
    /\ Len(tools) > Len(BasicTools)
    /\ \E m, n \in 1..Len(tools) : m < n /\ tools[m].name = tools[n].name

\* s is an initial segment of t
IsPrefix(s, t) == Len(s) <= Len(t) /\ SubSeq(t, 1, Len(s)) = s

\* C11: Turns are append-only: every new content of history.json extends the
\* content before it, also across restarts and reloads and when the file was
\* absent or unparsable at the first load; within an instance the in-memory
\* history only grows, and a reload starts from everything that was persisted.
C11_AppendOnly ==
    [][/\ IsPrefix(LoadHistory(historyFile), LoadHistory(historyFile'))
       /\ (alive /\ instance' = instance) => IsPrefix(history, history')
       /\ (alive' /\ instance' # instance) => IsPrefix(LoadHistory(historyFile), history')
      ]_vars

\* C11 witness: a second instance has reloaded the history and saved it again
C11_Witness ==
    /\ alive /\ instance = 2 /\ output # <<>>
    /\ Len(historyFile) >= 3 /\ historyFile = SaveHistory(history)

\* C13: reloading history.json right after a save gives back the in-memory
\* sequence that was saved: same length, same role and same content per Turn.
C13_SaveLoadRoundTrip ==
    /\ Len(LoadHistory(SaveHistory(history))) = Len(history)
    /\ \A n \in 1..Len(history) :
          /\ LoadHistory(SaveHistory(history))[n].role = history[n].role
          /\ LoadHistory(SaveHistory(history))[n].content = history[n].content

Settles(i) ==
    /\ alive /\ calls[i].pc = "tools"
    /\ i <= Len(calls') /\ calls'[i] # calls[i]

\* the tool names of the actions of a Decision, in array order
ActionNames(d) == [j \in 1..Length(d.actions) |-> d.actions.items[j].tool]

\* the tool names call c has executed, in the order executed
RanNames(c) == [j \in 1..Len(c.ran) |-> c.ran[j].tool]

\* C12: an action naming a Tool the registry lacks settles as a ToolResult
\* with success = false and an error text, and nothing is raised: the instance
\* lives on, the loop goes on to the next action of the Decision, and after the
\* last action the second provider request is made with the result mapping.
C12_ToolNotFound ==
    [][\A i \in 1..Len(calls) :
          LET c == calls[i]
              name == c.aiResponse.actions.items[c.k].tool
              r == calls'[i].toolResults[name]
          IN  (Settles(i) /\ Find(tools, name) = 0) =>
                  /\ ~r.success /\ r.error # ""
                  /\ calls'[i].ran = Append(c.ran, [tool |-> name, index |-> 0,
                                                    result |-> r])
                  /\ alive' /\ ~crashed'
                  /\ IF c.k < Length(c.aiResponse.actions)
                     THEN calls'[i].pc = "tools" /\ calls'[i].k = c.k + 1
                     ELSE /\ calls'[i].pc = "gen2"
                          /\ calls'[i].requests = c.requests + 1
      ]_vars

\* C12 witness: the second request is in flight after a Decision whose first
\* action named a missing Tool and whose second action ran a registered one
C12_Witness ==
    \E i \in 1..Len(calls) :
        /\ alive /\ calls[i].pc = "gen2" /\ Len(calls[i].ran) = 3
        /\ calls[i].ran[1].index = 0 /\ ~calls[i].ran[1].result.success
        /\ calls[i].ran[2].index > 0
        /\ ~calls[i].toolResults[calls[i].ran[1].tool].success

\* where call c stands in the loop over the actions of its first Decision
InOrder(c) ==
    CASE c.pc = "gen1" -> c.ran = <<>> /\ c.requests = 1
      [] c.pc = "tools" ->
            /\ c.requests = 1
            /\ c.k \in 1..Length(c.aiResponse.actions)
            /\ RanNames(c) = SubSeq(ActionNames(c.aiResponse), 1, c.k - 1)
      [] c.pc = "gen2" ->
            /\ c.requests = 2
            /\ c.ran # <<>>
            /\ RanNames(c) = ActionNames(c.aiResponse)
      [] OTHER -> c.requests \in {1, 2}

\* C14: in every registry a running instance works with, no two Tools have the
\* same name.
C14_UniqueNames ==
    alive => \A m, n \in 1..Len(tools) : m # n => tools[m].name # tools[n].name

\* C15: the actions of the first Decision are executed one at a time in array
\* order; the second provider request is made only after all of them have
\* settled, and it is made exactly when the first Decision has actions, so a
\* turn makes one provider request or two.
C15_ActionsInOrder ==
    [][\A i \in 1..Len(calls') :
          /\ InOrder(calls'[i])
          /\ (i <= Len(calls) /\ alive /\ calls[i].pc = "gen1"
                  /\ calls'[i].pc # "gen1") =>
                 \A completion \in Completions :
                     ProviderReplies(i, completion) =>
                         IF Length(GenerateResponse(completion).actions) > 0
                         THEN calls'[i].pc = "tools" /\ calls'[i].k = 1
                         ELSE calls'[i].pc \in {"done", "exit"}
                                  /\ calls'[i].requests = 1
          /\ (i <= Len(calls) /\ alive /\ calls[i].pc = "gen2"
                  /\ calls'[i].pc # "gen2") =>
                 calls'[i].pc \in {"done", "exit"} /\ calls'[i].requests = 2
      ]_vars

\* C15 witness: one turn has ended after a single request while another has
\* made its second request after all three of its actions
C15_Witness ==
    /\ alive
    /\ \E i \in 1..Len(calls) : calls[i].pc = "done" /\ calls[i].requests = 1
    /\ \E i \in 1..Len(calls) :
          /\ calls[i].pc = "gen2" /\ calls[i].requests = 2
          /\ RanNames(calls[i]) = <<<<"fetchPage">>, <<"listFiles">>, <<"fetchPage">>>>

\* C18: an action runs the latest registered Tool of the name it gives.
C18_LaterToolWins ==
    alive => \A i \in 1..Len(calls) : \A k \in 1..Len(calls[i].ran) :
        LET named == {n \in 1..Len(tools) : tools[n].name = calls[i].ran[k].tool}
        IN  named # {} => \A n \in named : n <= calls[i].ran[k].index

\* C19: once the replay of an interrupted input has been answered, the history
\* ends with one user Turn for that input and the assistant Turn that answers
\* it, and holds no second copy of the user Turn.
C19_InputRecordedOnce ==
    (alive /\ Len(calls) = 1 /\ calls[1].replay /\ calls[1].pc = "done") =>
        LET n == Len(history)
            turn == Message("user", calls[1].input)
        IN  /\ n >= 2
            /\ history[n].role = "assistant" /\ history[n - 1] = turn
            /\ Cardinality({m \in 1..n : history[m] = turn}) = 1

\* C20: the result mapping has one entry for each distinct tool name among the
\* actions executed so far, and the entry is the ToolResult of the last of them
\* naming that Tool; at the second request these are all actions of the Decision.
C20_LastResultPerName ==
    \A i \in 1..Len(calls) :
        LET c == calls[i]
            last(name) == CHOOSE j \in 1..Len(c.ran) :
                              /\ c.ran[j].tool = name
                              /\ \A m \in (j + 1)..Len(c.ran) : c.ran[m].tool # name
        IN  c.pc \in {"tools", "gen2"} =>
               /\ DOMAIN c.toolResults = {c.ran[j].tool : j \in 1..Len(c.ran)}
               /\ \A name \in DOMAIN c.toolResults :
                      c.toolResults[name] = c.ran[last(name)].result
               /\ c.pc = "gen2" => RanNames(c) = ActionNames(c.aiResponse)

\* C20 witness: two actions named the same Tool with different results, and the
\* mapping of the second request holds the later one
C20_Witness ==
    \E i \in 1..Len(calls) :
        LET c == calls[i]
        IN  /\ alive /\ c.pc = "gen2" /\ Len(c.ran) = 3
            /\ c.ran[1].tool = c.ran[3].tool
            /\ c.ran[1].result # c.ran[3].result
            /\ c.toolResults[c.ran[3].tool] = c.ran[3].result
            /\ Cardinality(DOMAIN c.toolResults) = 2

\* call i makes a provider request in this step
Requests(i) ==
    /\ alive' /\ AwaitsProvider(calls'[i])
    /\ (i > Len(calls) \/ instance' # instance \/ calls[i].pc # calls'[i].pc)

\* the messages array of the request call i makes in this step
Sent(i) ==
    Messages(tools', history', calls'[i].input,
             IF calls'[i].pc = "gen2" THEN Object(calls'[i].toolResults)
             ELSE Undefined)

\* C16: the prompt of a provider request holds, in order, one system turn, the
\* Turns recorded before the current input, the current input as a user turn,
\* and a second system turn exactly when tool results are passed; the current
\* input is in the prompt as that one user turn only.
C16_PromptShape ==
    [][\A i \in 1..Len(calls') :
          LET c == calls'[i]
              m == Sent(i)
              n == Len(m)
              u == IF c.pc = "gen2" THEN n - 1 ELSE n
          IN  Requests(i) =>
                 /\ u >= 2
                 /\ m[1].role = "system" /\ m[1].content.type = "prompt"
                 /\ m[u] = Message("user", c.input)
                 /\ \A j \in 2..(u - 1) : m[j] # Message("user", c.input)
                 /\ \A j \in 2..u : m[j].role # "system"
                 /\ c.pc = "gen2" =>
                        (m[n].role = "system" /\ m[n].content.type = "results")
      ]_vars

====
